---- MODULE Spec2Model ----
(***************************************************************************)
(* Model of the viberun PyPI launcher (packaging/pypi/viberun/cli.py).     *)
(*                                                                         *)
(* One run of main(): resolve the target triple, locate the binary,       *)
(* prepare the child's environment, spawn the child, install the signal   *)
(* forwarding handlers, wait, mirror the child's termination.  Signals    *)
(* reach the launcher asynchronously; CPython records them and runs the   *)
(* Python-level handler later in the main thread, so delivery and handler *)
(* execution are separate steps.                                           *)
(*                                                                         *)
(* Strings that the code inspects character by character (sys.platform,   *)
(* platform.machine()) are sequences of one-character strings.  Paths     *)
(* are sequences of components, PATH values are sequences of tokens.      *)
(***************************************************************************)
EXTENDS Integers, Sequences, FiniteSets, TLC

\* ------------------------------------------------------------------ bounds
\* Number of signals the outside world sends to the launcher in one run.
MaxDeliveries == 2

\* ----------------------------------------------------------- host strings
s_linux     == <<"l","i","n","u","x">>
s_linux2    == <<"l","i","n","u","x","2">>
s_darwin    == <<"d","a","r","w","i","n">>
s_win32     == <<"w","i","n","3","2">>
s_cygwin    == <<"c","y","g","w","i","n">>
s_msys      == <<"m","s","y","s">>
s_freebsd   == <<"f","r","e","e","b","s","d">>

m_x86_64    == <<"x","8","6","_","6","4">>
m_amd64     == <<"a","m","d","6","4">>
m_AMD64     == <<"A","M","D","6","4">>
m_aarch64   == <<"a","a","r","c","h","6","4">>
m_arm64     == <<"a","r","m","6","4">>
m_ARM64     == <<"A","R","M","6","4">>
m_i686      == <<"i","6","8","6">>
m_PPC64     == <<"P","P","C","6","4">>

\* sys.platform values of the hosts considered.
Systems == {s_linux, s_linux2, s_darwin, s_win32, s_cygwin, s_msys, s_freebsd}

\* platform.machine() values of the hosts considered (raw, before lower()).
Machines == {m_x86_64, m_amd64, m_AMD64, m_aarch64, m_arm64, m_ARM64,
             m_i686, m_PPC64}

\* os.name of a CPython build: "nt" only for the native Windows build, whose
\* sys.platform is "win32"; the Cygwin and MSYS builds are POSIX builds.
OsName(sys) == IF sys = s_win32 THEN "nt" ELSE "posix"

\* ------------------------------------------------------------ str helpers
UpperAlphabet == <<"A","B","C","D","E","F","G","H","I","J","K","L","M",
                   "N","O","P","Q","R","S","T","U","V","W","X","Y","Z">>
LowerAlphabet == <<"a","b","c","d","e","f","g","h","i","j","k","l","m",
                   "n","o","p","q","r","s","t","u","v","w","x","y","z">>

LowerChar(c) ==
    IF \E i \in 1..Len(UpperAlphabet) : UpperAlphabet[i] = c
    THEN LowerAlphabet[CHOOSE i \in 1..Len(UpperAlphabet) : UpperAlphabet[i] = c]
    ELSE c

\* str.lower()
Lower(s) == [i \in 1..Len(s) |-> LowerChar(s[i])]

\* str.startswith(prefix)
StartsWith(s, prefix) ==
    /\ Len(s) >= Len(prefix)
    /\ SubSeq(s, 1, Len(prefix)) = prefix

\* ---------------------------------------------------------- _target_triple
TripleOk(t, sys, machine) ==
    [ok |-> TRUE, triple |-> t, system |-> sys, machine |-> machine]

\* raise RuntimeError(f"Unsupported platform: {system} ({machine})")
TripleUnsupported(sys, machine) ==
    [ok |-> FALSE, triple |-> "", system |-> sys, machine |-> machine]

\* A plausible slip: the arm64 alias is forgotten for Linux.
_target_triple_no_alias(sys, platform_machine) ==
    LET machine == Lower(platform_machine) IN
    IF StartsWith(sys, s_linux) /\ machine \in {m_x86_64, m_amd64}
      THEN TripleOk("x86_64-unknown-linux-musl", sys, machine)
    ELSE IF StartsWith(sys, s_linux) /\ machine \in {m_aarch64}
      THEN TripleOk("aarch64-unknown-linux-musl", sys, machine)
    ELSE IF sys = s_darwin /\ machine \in {m_x86_64, m_amd64}
      THEN TripleOk("x86_64-apple-darwin", sys, machine)
    ELSE IF sys = s_darwin /\ machine \in {m_aarch64, m_arm64}
      THEN TripleOk("aarch64-apple-darwin", sys, machine)
    ELSE IF sys \in {s_win32, s_cygwin, s_msys} /\ machine \in {m_x86_64, m_amd64}
      THEN TripleOk("x86_64-pc-windows-msvc", sys, machine)
    ELSE IF sys \in {s_win32, s_cygwin, s_msys} /\ machine \in {m_aarch64, m_arm64}
      THEN TripleOk("aarch64-pc-windows-msvc", sys, machine)
    ELSE TripleUnsupported(sys, machine)

_target_triple(sys, platform_machine) ==
    LET machine == Lower(platform_machine) IN
    IF StartsWith(sys, s_linux) /\ machine \in {m_x86_64, m_amd64}
      THEN TripleOk("x86_64-unknown-linux-musl", sys, machine)
    ELSE IF StartsWith(sys, s_linux) /\ machine \in {m_aarch64, m_arm64}
      THEN TripleOk("aarch64-unknown-linux-musl", sys, machine)
    ELSE IF sys = s_darwin /\ machine \in {m_x86_64, m_amd64}
      THEN TripleOk("x86_64-apple-darwin", sys, machine)
    ELSE IF sys = s_darwin /\ machine \in {m_aarch64, m_arm64}
      THEN TripleOk("aarch64-apple-darwin", sys, machine)
    ELSE IF sys \in {s_win32, s_cygwin, s_msys} /\ machine \in {m_x86_64, m_amd64}
      THEN TripleOk("x86_64-pc-windows-msvc", sys, machine)
    ELSE IF sys \in {s_win32, s_cygwin, s_msys} /\ machine \in {m_aarch64, m_arm64}
      THEN TripleOk("aarch64-pc-windows-msvc", sys, machine)
    ELSE TripleUnsupported(sys, machine)

\* ------------------------------------------------------------ _binary_path
\* Path(__file__).resolve().parent
PackageRoot == <<"site-packages", "viberun">>

\* "viberun.exe" if os.name == "nt" else "viberun"
binary_name(osname) ==
    IF osname = "nt" THEN <<"viberun", ".exe">> ELSE <<"viberun">>

\* root / "vendor" / target / "viberun" / binary_name
_binary_path(root, triple, osname) ==
    [dir |-> root \o <<"vendor", triple, "viberun">>, name |-> binary_name(osname)]

\* binary.parent.parent
VendorRoot(binary) == SubSeq(binary.dir, 1, Len(binary.dir) - 1)

\* ------------------------------------------------------------ _extend_path
\* env.get("PATH", "")
EnvGet(env, key) == IF key \in DOMAIN env THEN env[key] ELSE <<>>

\* env[key] = value
EnvSet(env, key, value) ==
    [k \in DOMAIN env \cup {key} |-> IF k = key THEN value ELSE env[k]]

\* ";" if os.name == "nt" else ":"
path_sep(osname) == IF osname = "nt" THEN ";" ELSE ":"

\* A plausible slip: PATH is overwritten instead of prepended to.
_extend_path_overwrite(env, vendor_root, path_dir_exists, osname) ==
    LET path_dir == vendor_root \o <<"path">> IN
    IF ~path_dir_exists THEN env
    ELSE EnvSet(env, "PATH", <<path_dir>>)

_extend_path(env, vendor_root, path_dir_exists, osname) ==
    LET path_dir == vendor_root \o <<"path">>
        existing == EnvGet(env, "PATH")
    IN  IF ~path_dir_exists THEN env
        ELSE EnvSet(env, "PATH",
                    IF existing # <<>>
                    THEN <<path_dir, <<path_sep(osname)>>>> \o existing
                    ELSE <<path_dir>>)

\* A plausible slip: env.setdefault(...) keeps a marker inherited from the parent.
MarkManagedSetdefault(env) ==
    IF "VIBERUN_MANAGED_BY_PIP" \in DOMAIN env THEN env
    ELSE EnvSet(env, "VIBERUN_MANAGED_BY_PIP", << <<"1">> >>)

\* env["VIBERUN_MANAGED_BY_PIP"] = "1"
MarkManaged(env) == EnvSet(env, "VIBERUN_MANAGED_BY_PIP", << <<"1">> >>)

\* Parent environments considered (os.environ at start-up).
\* Every value is a sequence of tokens, every token a sequence of strings.
Environs ==
    { [k \in {"HOME"} |-> << <<"home", "u">> >>],
      [k \in {"HOME", "PATH"} |-> IF k = "PATH" THEN <<>> ELSE << <<"home", "u">> >>],
      [k \in {"PATH"} |-> << <<"usr", "bin">>, <<":">>, <<"bin">> >>],
      [k \in {"PATH", "VIBERUN_MANAGED_BY_PIP"} |->
            IF k = "PATH" THEN << <<"usr", "bin">> >> ELSE << <<"0">> >>] }

\* ----------------------------------------------------------------- signals
SIGHUP  == 1
SIGINT  == 2
SIGKILL == 9
SIGPIPE == 13
SIGTERM == 15

\* The names main() looks up with getattr(signal, name, None), in loop order.
ForwardedNames == <<SIGINT, SIGTERM, SIGHUP>>

\* getattr(signal, sig_name, None): the signal module of the native Windows
\* build has SIGINT and SIGTERM but no SIGHUP.
SignalExists(osname, sig) == osname = "posix" \/ sig \in {SIGINT, SIGTERM}

\* Signals the outside world can deliver to the launcher: on POSIX any of
\* the three, on Windows only the console's Ctrl-C (SIGINT).
Deliverable(osname) ==
    IF osname = "posix" THEN {SIGHUP, SIGINT, SIGTERM} ELSE {SIGINT}

\* Signals that can end the child (POSIX only; Windows reports exit codes).
ChildFatal == {SIGHUP, SIGINT, SIGKILL, SIGPIPE, SIGTERM}

\* Exit codes the child may choose.
ExitCodes == {0, 3}

\* Dispositions of a freshly started CPython: SIGPIPE is ignored, SIGINT
\* raises KeyboardInterrupt (uncaught here, so it ends the run), the rest
\* keep the default action, which terminates the process.
InitialHandlers == [s \in ChildFatal |-> IF s = SIGPIPE THEN "ignore" ELSE "default"]

\* ------------------------------------------------------------------- state
VARIABLES
    system,        \* sys.platform
    machine,       \* platform.machine(), raw
    binaryExists,  \* whether the file at the resolved path exists
    pathDirExists, \* whether <vendor root>/path exists
    environ,       \* os.environ of the launcher
    pc,            \* position of main()
    target,        \* result of _target_triple()
    binary,        \* result of _binary_path()
    env,           \* the mapping built for the child
    err,           \* which exception ended the run, "none" if none
    childState,    \* "none", "running", "exited"
    childStatus,   \* what waitpid reports once childState = "exited"
    childEnv,      \* environment the child was started with
    spawnCount,    \* number of Popen calls that created a process
    sent,          \* signals the launcher has sent to the running child
    handlers,      \* signal dispositions of the launcher
    idx,           \* loop index of the handler installation loop
    pending,       \* signals recorded for the launcher, handler not yet run
    reaped,        \* proc.returncode is not None
    code,          \* value returned by proc.wait()
    exitStatus,    \* exit status of the launcher once pc = "done"
    termSig,       \* signal that ended the launcher once pc = "killed"
    delivered,     \* number of signals delivered to the launcher so far
    lastSig,       \* the signal delivered last, 0 before the first
    swallowed      \* number of exceptions the forward handler has swallowed

vars == <<system, machine, binaryExists, pathDirExists, environ, pc, target,
          binary, env, err, childState, childStatus, childEnv, spawnCount,
          sent, handlers, idx, pending, reaped, code, exitStatus, termSig,
          delivered, lastSig, swallowed>>

hostVars   == <<system, machine, binaryExists, pathDirExists, environ>>
setupVars  == <<target, binary, env>>
childVars  == <<childState, childStatus, childEnv, spawnCount>>
resultVars == <<code, exitStatus, termSig>>

osname == OsName(system)

NoTriple == [ok |-> FALSE, triple |-> "", system |-> <<>>, machine |-> <<>>]
NoBinary == [dir |-> <<>>, name |-> <<>>]
NoEnv    == <<>>

\* Positions at which the launcher process is alive.
Live == {"resolve", "check", "prepare", "mark", "spawn", "install", "wait",
         "checkcode", "return"}

Init ==
    /\ system \in Systems
    /\ machine \in Machines
    /\ binaryExists \in BOOLEAN
    /\ pathDirExists \in BOOLEAN
    /\ environ \in Environs
    /\ pc = "resolve"
    /\ target = NoTriple
    /\ binary = NoBinary
    /\ env = NoEnv
    /\ err = "none"
    /\ childState = "none"
    /\ childStatus = 0
    /\ childEnv = NoEnv
    /\ spawnCount = 0
    /\ sent = <<>>
    /\ handlers = InitialHandlers
    /\ idx = 1
    /\ pending = {}
    /\ reaped = FALSE
    /\ code = 0
    /\ exitStatus = 0
    /\ termSig = 0
    /\ delivered = 0
    /\ lastSig = 0
    /\ swallowed = 0

\* ------------------------------------------------------------------ main()
\* binary = _binary_path(), which first calls _target_triple()
Resolve ==
    /\ pc = "resolve"
    /\ LET t == _target_triple(system, machine) IN
         /\ target' = t
         /\ IF t.ok
            THEN /\ binary' = _binary_path(PackageRoot, t.triple, osname)
                 /\ pc' = "check"
                 /\ err' = err
            ELSE /\ binary' = binary
                 /\ pc' = "failed"
                 /\ err' = "unsupported"
    /\ UNCHANGED <<hostVars, env, childVars, sent, handlers, idx, pending,
                   reaped, resultVars, delivered, lastSig, swallowed>>

\* A plausible slip: the existence check is dropped.
BinaryMissingUnchecked(exists) == FALSE

\* not binary.exists()
BinaryMissing(exists) == ~exists

\* if not binary.exists(): raise RuntimeError("Missing viberun binary at ...")
CheckBinary ==
    /\ pc = "check"
    /\ IF BinaryMissing(binaryExists)
       THEN pc' = "failed" /\ err' = "missing"
       ELSE pc' = "prepare" /\ err' = err
    /\ UNCHANGED <<hostVars, setupVars, childVars, sent, handlers, idx,
                   pending, reaped, resultVars, delivered, lastSig, swallowed>>

\* env = _extend_path(os.environ.copy(), binary.parent.parent)
\* The copy is what is changed; os.environ itself is left as it was.
ExtendPath ==
    /\ pc = "prepare"
    /\ env' = _extend_path(environ, VendorRoot(binary), pathDirExists, osname)
    /\ pc' = "mark"
    /\ UNCHANGED <<hostVars, target, binary, err, childVars, sent, handlers,
                   idx, pending, reaped, resultVars, delivered, lastSig, swallowed>>

\* env["VIBERUN_MANAGED_BY_PIP"] = "1"
MarkEnv ==
    /\ pc = "mark"
    /\ env' = MarkManaged(env)
    /\ pc' = "spawn"
    /\ UNCHANGED <<hostVars, target, binary, err, childVars, sent, handlers,
                   idx, pending, reaped, resultVars, delivered, lastSig, swallowed>>

\* proc = subprocess.Popen([str(binary), *sys.argv[1:]], env=env)
Spawn ==
    /\ pc = "spawn"
    /\ childState' = "running"
    /\ childEnv' = env
    /\ spawnCount' = spawnCount + 1
    /\ pc' = "install"
    /\ UNCHANGED <<hostVars, setupVars, err, childStatus, sent, handlers, idx,
                   pending, reaped, resultVars, delivered, lastSig, swallowed>>

\* Popen raises OSError (e.g. the file is not executable): no process exists.
SpawnFails ==
    /\ pc = "spawn"
    /\ pc' = "failed"
    /\ err' = "spawn"
    /\ UNCHANGED <<hostVars, setupVars, childVars, sent, handlers, idx,
                   pending, reaped, resultVars, delivered, lastSig, swallowed>>

\* One iteration of: for sig_name in ("SIGINT", "SIGTERM", "SIGHUP"): ...
InstallHandler ==
    /\ pc = "install"
    /\ LET sig == ForwardedNames[idx] IN
         handlers' = IF SignalExists(osname, sig)
                     THEN [handlers EXCEPT ![sig] = "forward"]
                     ELSE handlers
    /\ idx' = idx + 1
    /\ pc' = IF idx = Len(ForwardedNames) THEN "wait" ELSE "install"
    /\ UNCHANGED <<hostVars, setupVars, err, childVars, sent, pending, reaped,
                   resultVars, delivered, lastSig, swallowed>>

\* code = proc.wait(): returns only once the child has exited.
Wait ==
    /\ pc = "wait"
    /\ childState = "exited"
    /\ code' = childStatus
    /\ reaped' = TRUE
    /\ pc' = "checkcode"
    /\ UNCHANGED <<hostVars, setupVars, err, childVars, sent, handlers, idx,
                   pending, exitStatus, termSig, delivered, lastSig, swallowed>>

\* if code < 0: os.kill(os.getpid(), -code)
\* The signal meets the launcher's own disposition for it: the forward
\* handler if one was installed, SIG_IGN, or the default action.
CheckCode ==
    /\ pc = "checkcode"
    /\ IF code < 0 /\ handlers[-code] = "default"
       THEN pc' = "killed" /\ termSig' = -code /\ pending' = pending
       ELSE /\ pc' = "return"
            /\ termSig' = termSig
            /\ pending' = IF code < 0 /\ handlers[-code] = "forward"
                          THEN pending \cup {-code} ELSE pending
    /\ UNCHANGED <<hostVars, setupVars, err, childVars, sent, handlers, idx,
                   reaped, code, exitStatus, delivered, lastSig, swallowed>>

\* A plausible slip: the status is collapsed to success/failure.
SystemExitStatusCollapsed(c) == IF c = 0 THEN 0 ELSE 1

\* raise SystemExit(main()): the exit status is the low byte of the code.
SystemExitStatus(c) == c % 256

\* return code
Return ==
    /\ pc = "return"
    /\ exitStatus' = SystemExitStatus(code)
    /\ pc' = "done"
    /\ UNCHANGED <<hostVars, setupVars, err, childVars, sent, handlers, idx,
                   pending, reaped, code, termSig, delivered, lastSig, swallowed>>

\* ----------------------------------------------------------------- signals
\* A signal reaches the launcher.  With the forward handler installed
\* CPython only records it; otherwise the initial disposition applies:
\* SIGTERM and SIGHUP terminate the process, SIGINT raises
\* KeyboardInterrupt, which nothing in main() catches.
Deliver(s) ==
    /\ pc \in Live
    /\ delivered < MaxDeliveries
    /\ s \in Deliverable(osname)
    /\ delivered' = delivered + 1
    /\ lastSig' = s
    /\ IF handlers[s] = "forward"
       THEN pending' = pending \cup {s} /\ pc' = pc /\ termSig' = termSig
       ELSE pending' = pending /\ pc' = "killed" /\ termSig' = s
    /\ UNCHANGED <<hostVars, setupVars, err, childVars, sent, handlers, idx,
                   reaped, code, exitStatus, swallowed>>

\* What Popen.send_signal(sig) does.
\*   POSIX:   self.poll(); return if returncode is set; os.kill(pid, sig)
\*   Windows: return if returncode is set; SIGTERM -> terminate();
\*            CTRL_C_EVENT / CTRL_BREAK_EVENT -> os.kill; anything else
\*            raises ValueError("Unsupported signal")
send_signal(os, sig, cstate, isReaped) ==
    IF os = "posix"
    THEN IF isReaped \/ cstate = "exited" THEN "skip" ELSE "kill"
    ELSE IF isReaped \/ cstate = "exited" THEN "skip"
         ELSE IF sig = SIGTERM THEN "terminate" ELSE "raise"

\* A plausible slip: the handler lets the exception escape.
ExceptReraise(p, e) == [pc |-> "failed", err |-> "forward"]

\* except Exception: pass
ExceptPass(p, e) == [pc |-> p, err |-> e]

\* A plausible slip: the handler always asks the child to terminate.
ForwardedSignalTerm(sig) == SIGTERM

\* proc.send_signal(sig): the number received is the number sent.
ForwardedSignal(sig) == sig

\* forward(sig, _frame): the Python-level handler runs in the main thread.
RunHandler(s) ==
    /\ pc \in Live
    /\ s \in pending
    /\ pending' = pending \ {s}
    /\ LET outcome == send_signal(osname, ForwardedSignal(s), childState, reaped)
           after   == IF outcome = "raise" THEN ExceptPass(pc, err)
                      ELSE [pc |-> pc, err |-> err]
       IN  /\ pc' = after.pc
           /\ err' = after.err
           /\ swallowed' = IF outcome = "raise" THEN swallowed + 1 ELSE swallowed
           /\ sent' = IF outcome = "kill"
                      THEN Append(sent, ForwardedSignal(s)) ELSE sent
           /\ reaped' = (reaped \/ (outcome = "skip" /\ osname = "posix"))
           /\ IF outcome = "terminate"
              THEN childState' = "exited" /\ childStatus' = 1
              ELSE UNCHANGED <<childState, childStatus>>
    /\ UNCHANGED <<hostVars, setupVars, childEnv, spawnCount, handlers, idx,
                   resultVars, delivered, lastSig>>

\* ------------------------------------------------------------------- child
\* The child exits on its own with a non-negative status.
ChildExit(n) ==
    /\ childState = "running"
    /\ childState' = "exited"
    /\ childStatus' = n
    /\ UNCHANGED <<hostVars, pc, setupVars, err, childEnv, spawnCount, sent,
                   handlers, idx, pending, reaped, resultVars, delivered, lastSig, swallowed>>

\* The child is ended by a signal, forwarded or sent by anyone else;
\* waitpid then reports the negated signal number.
ChildKilled(s) ==
    /\ childState = "running"
    /\ osname = "posix"
    /\ childState' = "exited"
    /\ childStatus' = -s
    /\ UNCHANGED <<hostVars, pc, setupVars, err, childEnv, spawnCount, sent,
                   handlers, idx, pending, reaped, resultVars, delivered, lastSig, swallowed>>

\* ------------------------------------------------------------ specification
Next ==
    \/ Resolve
    \/ CheckBinary
    \/ ExtendPath
    \/ MarkEnv
    \/ Spawn
    \/ SpawnFails
    \/ InstallHandler
    \/ Wait
    \/ CheckCode
    \/ Return
    \/ \E s \in {SIGHUP, SIGINT, SIGTERM} : Deliver(s)
    \/ \E s \in {SIGHUP, SIGINT, SIGTERM} : RunHandler(s)
    \/ \E n \in ExitCodes : ChildExit(n)
    \/ \E s \in ChildFatal : ChildKilled(s)

Spec == Init /\ [][Next]_vars

\* ============================================================== properties
\* The documented platform table, written out over the hosts considered.
LinuxLike   == {s_linux, s_linux2}
WindowsLike == {s_win32, s_cygwin, s_msys}
X86Names    == {m_x86_64, m_amd64, m_AMD64}
ArmNames    == {m_aarch64, m_arm64, m_ARM64}

Supported(sys, m) ==
    /\ sys \in LinuxLike \cup {s_darwin} \cup WindowsLike
    /\ m \in X86Names \cup ArmNames

DocumentedTriple(sys, m) ==
    CASE sys \in LinuxLike   /\ m \in X86Names -> "x86_64-unknown-linux-musl"
      [] sys \in LinuxLike   /\ m \in ArmNames -> "aarch64-unknown-linux-musl"
      [] sys = s_darwin      /\ m \in X86Names -> "x86_64-apple-darwin"
      [] sys = s_darwin      /\ m \in ArmNames -> "aarch64-apple-darwin"
      [] sys \in WindowsLike /\ m \in X86Names -> "x86_64-pc-windows-msvc"
      [] sys \in WindowsLike /\ m \in ArmNames -> "aarch64-pc-windows-msvc"

\* The lower-case spelling of each machine string considered.
LowerSpelling(m) ==
    CASE m = m_AMD64 -> m_amd64
      [] m = m_ARM64 -> m_arm64
      [] m = m_PPC64 -> <<"p","p","c","6","4">>
      [] OTHER       -> m

Resolved == target # NoTriple

ForwardClass == {SIGHUP, SIGINT, SIGTERM}

\* Signal s was delivered to the launcher in this step.
Delivered(s) == delivered' = delivered + 1 /\ lastSig' = s

\* The forward handler ran for signal s in this step.
HandlerRan(s) == s \in pending /\ s \notin pending'

\* ---------------------------------------------------------------------- C1
\* C1: whenever the child was ended by a signal S (wait reports -S), the
\* launcher is itself ended by S and never reaches "return code".
C1_SignalDeathMirrored ==
    /\ pc \in {"return", "done"} => code >= 0
    /\ (pc = "killed" /\ reaped /\ code < 0) => termSig = -code

\* ---------------------------------------------------------------------- C2
\* C2: when the child exited normally with code n >= 0 the launcher's exit
\* status is exactly n, and the launcher produces an exit status only after
\* the child has exited.
C2_ExitCodeMirrored ==
    /\ pc \in {"checkcode", "return", "done"} =>
          childState = "exited" /\ code = childStatus
    /\ (pc = "done" /\ childStatus >= 0) => exitStatus = childStatus

C2_Witness == pc = "done" /\ childState = "exited" /\ childStatus = 3

\* ---------------------------------------------------------------------- C3
\* C3 as stated: during the wait, on every host, each SIGINT, SIGTERM or
\* SIGHUP delivered to the launcher is recorded rather than fatal, and the
\* handler run for it sends that same signal to the running child while the
\* launcher stays in the wait.
C3_EverySignalForwarded ==
    [][ \A s \in ForwardClass :
          /\ (pc = "wait" /\ Delivered(s)) =>
                (pc' = "wait" /\ s \in pending')
          /\ (pc = "wait" /\ childState = "running" /\ HandlerRan(s)) =>
                (pc' = "wait" /\ sent' = Append(sent, s)) ]_vars

\* C3 amended: the launcher is never ended by such a signal during the wait
\* and the handler never takes it out of the wait; on a POSIX host the
\* handler sends the same signal number to the running child; on a Windows
\* host send_signal raises for SIGINT and nothing reaches the child.
C3_ForwardedWhereSupported ==
    [][ \A s \in ForwardClass :
          /\ (pc = "wait" /\ Delivered(s)) =>
                (pc' = "wait" /\ s \in pending')
          /\ (pc = "wait" /\ childState = "running" /\ HandlerRan(s)) =>
                /\ pc' = "wait"
                /\ osname = "posix" => sent' = Append(sent, s)
                /\ osname = "nt" => (sent' = sent /\ swallowed' = swallowed + 1) ]_vars

C3_Witness ==
    /\ pc = "wait" /\ childState = "running"
    /\ delivered = 2 /\ lastSig = SIGINT /\ sent = <<SIGINT, SIGHUP>>

\* ---------------------------------------------------------------------- C4
\* C4: a child exists only if the target was resolved and the binary file
\* exists; a run that ends with unsupported-platform or missing-binary has
\* spawned nothing and installed no handler; at most one child is spawned.
C4_SpawnOnlyAfterResolution ==
    /\ spawnCount <= 1
    /\ childState # "none" =>
          /\ spawnCount = 1
          /\ Supported(system, machine)
          /\ target.ok
          /\ binaryExists
    /\ (Resolved /\ pc # "check" /\ (~Supported(system, machine) \/ ~binaryExists)) =>
          /\ pc \in {"failed", "killed"}
          /\ childState = "none"
          /\ spawnCount = 0
          /\ handlers = InitialHandlers
    /\ err \in {"unsupported", "missing"} =>
          (pc = "failed" /\ childState = "none" /\ handlers = InitialHandlers)

C4_Witness == pc = "failed" /\ err = "missing" /\ target.ok /\ ~binaryExists

\* ---------------------------------------------------------------------- C5
\* C5 as stated: resolution returns the documented triple for every
\* supported pair and otherwise fails naming the raw OS and raw
\* architecture strings.
C5_TableAndRawNames ==
    Resolved =>
        IF Supported(system, machine)
        THEN target.ok /\ target.triple = DocumentedTriple(system, machine)
        ELSE ~target.ok /\ target.system = system /\ target.machine = machine

\* C5 amended: as stated, except that the error names the raw OS string and
\* the lower-cased architecture string.
C5_TableAndLoweredName ==
    Resolved =>
        IF Supported(system, machine)
        THEN /\ target.ok
             /\ target.triple = DocumentedTriple(system, machine)
             /\ err # "unsupported"
        ELSE /\ ~target.ok
             /\ pc = "failed" /\ err = "unsupported"
             /\ target.system = system
             /\ target.machine = LowerSpelling(machine)

C5_Witness ==
    /\ pc = "failed" /\ err = "unsupported"
    /\ system = s_freebsd /\ machine = m_PPC64

\* ---------------------------------------------------------------------- C6
\* C6: the binary file name ends in ".exe" exactly on the hosts for which
\* the selected triple is a -pc-windows-msvc one (win32, cygwin, msys).
HasExeSuffix(name) == Len(name) > 0 /\ name[Len(name)] = ".exe"

C6_ExeSuffixIffWindowsLike ==
    binary # NoBinary =>
        /\ HasExeSuffix(binary.name) <=> system \in WindowsLike
        /\ HasExeSuffix(binary.name) <=>
              target.triple \in {"x86_64-pc-windows-msvc", "aarch64-pc-windows-msvc"}

\* ---------------------------------------------------------------------- C7
\* C7: right after _extend_path, if the auxiliary directory exists PATH is
\* that directory, then the separator and the original PATH when one was
\* present and non-empty; otherwise the mapping equals the original one.
\* Every variable other than PATH is as in the original in both cases.
AuxDir == PackageRoot \o <<"vendor", target.triple, "path">>

ListSeparator == IF system = s_win32 THEN ";" ELSE ":"

HadPath == "PATH" \in DOMAIN environ /\ environ["PATH"] # <<>>

EndsWith(v, suffix) ==
    /\ Len(v) >= Len(suffix)
    /\ SubSeq(v, Len(v) - Len(suffix) + 1, Len(v)) = suffix

C7_PathPreserved ==
    pc = "mark" =>
        IF pathDirExists
        THEN /\ DOMAIN env = DOMAIN environ \cup {"PATH"}
             /\ \A k \in DOMAIN environ \ {"PATH"} : env[k] = environ[k]
             /\ env["PATH"][1] = AuxDir
             /\ IF HadPath
                THEN /\ env["PATH"] = <<AuxDir, <<ListSeparator>>>> \o environ["PATH"]
                     /\ EndsWith(env["PATH"], environ["PATH"])
                ELSE env["PATH"] = <<AuxDir>>
        ELSE env = environ

C7_Witness ==
    /\ pc = "mark" /\ pathDirExists /\ HadPath
    /\ Len(env["PATH"]) = Len(environ["PATH"]) + 2

\* ---------------------------------------------------------------------- C8
\* C8: the child's environment always carries VIBERUN_MANAGED_BY_PIP = "1",
\* with or without the auxiliary directory, and os.environ of the launcher
\* never changes.
C8_MarkerForChildOnly ==
    /\ [](childState # "none" =>
            /\ "VIBERUN_MANAGED_BY_PIP" \in DOMAIN childEnv
            /\ childEnv["VIBERUN_MANAGED_BY_PIP"] = << <<"1">> >>)
    /\ [][environ' = environ]_vars

C8_Witness ==
    /\ childState = "running" /\ ~pathDirExists
    /\ "VIBERUN_MANAGED_BY_PIP" \in DOMAIN environ
    /\ environ["VIBERUN_MANAGED_BY_PIP"] = << <<"0">> >>

\* ---------------------------------------------------------------------- C9
\* C9: a failing or skipped forward never ends the run: the handler leaves
\* the launcher where it was, no run fails with an error from the handler,
\* and the status finally reported depends on the child's status alone.
C9_ForwardNeverCrashes ==
    /\ [](pc = "failed" => err \in {"unsupported", "missing", "spawn"})
    /\ [](pc = "done" => exitStatus = childStatus % 256)
    /\ [][ \A s \in ForwardClass :
             HandlerRan(s) => (pc' = pc /\ err' = err /\ code' = code) ]_vars

C9_Witness == pc = "done" /\ swallowed > 0 /\ exitStatus = 3

\* --------------------------------------------------------------------- C10
\* C10: no SIGINT, SIGTERM or SIGHUP ends the launcher while its child is
\* still running.
C10_NoOrphan ==
    ~(pc = "killed" /\ childState = "running" /\ termSig \in ForwardClass)

====
